---- MODULE Spec2Model ----
(***************************************************************************)
(* SmartTrafficManager (src/TrafficManagement.py, lines 8-49): a rolling    *)
(* history of per-lane vehicle counts, a per-lane least-squares forecast    *)
(* and a proportional split of the signal cycle.                            *)
(*                                                                          *)
(* Numbers.  The program computes in IEEE doubles; the model computes the   *)
(* same expressions exactly, over rationals <<n, d>> in lowest terms with   *)
(* d > 0.  A zero divisor gives the non-finite values numpy gives:          *)
(* <<0, 0>> is nan, <<1, 0>> is +inf and <<-1, 0>> is -inf.                 *)
(***************************************************************************)
EXTENDS Integers, Sequences, FiniteSets

VARIABLES
    mgr,             \* "none": not constructed, "ok": the object exists, "failed": __init__ raised
    num_lanes,       \* self.num_lanes
    history_length,  \* self.history_length
    cycle_length,    \* self.cycle_length
    vehicle_counts,  \* self.vehicle_counts: history_length rows of num_lanes counts
    signal_timings,  \* self.signal_timings: num_lanes rationals
    ret,             \* outcome of the last call: what it returned or raised
    submitted,       \* history: the vectors of the valid update calls, oldest first
    tainted,         \* history: some call was given a vector of the wrong length
    calls            \* number of update_vehicle_counts / simulate_step calls so far

vars == <<mgr, num_lanes, history_length, cycle_length, vehicle_counts,
          signal_timings, ret, submitted, tainted, calls>>

config == <<num_lanes, history_length, cycle_length>>

----------------------------------------------------------------------------
(* Bounds and input sets *)

\* Number of update_vehicle_counts / simulate_step calls explored.
MaxSteps == 3

\* Entries of the count vectors handed to the manager.
Counts == {-1, 0, 1}

\* Lengths of the vectors handed to the manager (right and wrong ones).
VectorLengths == {0, 1, 2, 3}

\* Constructor arguments (num_lanes, history_length, cycle_length) tried.
Configs ==
    {<<1, 1, 5>>, <<1, 2, 5>>, <<1, 3, 12>>, <<2, 2, 5>>, <<2, 3, 12>>,
     <<1, 2, 0>>, <<1, 2, -5>>, <<2, 0, 5>>,
     <<0, 2, 5>>, <<-1, 2, 5>>, <<2, -1, 5>>}

Vectors(n) == [1..n -> Counts]

InputVectors == UNION {Vectors(n) : n \in VectorLengths}

----------------------------------------------------------------------------
(* Exact arithmetic *)

Abs(x) == IF x < 0 THEN -x ELSE x

Sgn(x) == IF x < 0 THEN -1 ELSE IF x = 0 THEN 0 ELSE 1

RECURSIVE Gcd(_, _)
Gcd(a, b) == IF b = 0 THEN a ELSE Gcd(b, a % b)

\* n / d in lowest terms; a zero divisor gives nan or a signed infinity.
Norm(n, d) ==
    IF d = 0 THEN <<Sgn(n), 0>>
    ELSE LET g == Gcd(Abs(n), Abs(d))
             s == Sgn(d)
         IN  <<(s * n) \div g, (s * d) \div g>>

FromInt(i) == <<i, 1>>

RAdd(a, b) == Norm(a[1] * b[2] + b[1] * a[2], a[2] * b[2])

RSub(a, b) == Norm(a[1] * b[2] - b[1] * a[2], a[2] * b[2])

RMul(a, b) == Norm(a[1] * b[1], a[2] * b[2])

RDiv(a, b) == Norm(a[1] * b[2], a[2] * b[1])

\* a <= b, for finite a and b
RLe(a, b) == a[1] * b[2] <= b[1] * a[2]

\* Python's max(a, b): a unless b > a
RMax(a, b) == IF RLe(b, a) THEN a ELSE b

RECURSIVE RSum(_)
RSum(s) == IF s = <<>> THEN FromInt(0) ELSE RAdd(s[1], RSum(Tail(s)))

RECURSIVE ISum(_)
ISum(s) == IF s = <<>> THEN 0 ELSE s[1] + ISum(Tail(s))

----------------------------------------------------------------------------
(* __init__ *)

\* np.zeros((history_length, num_lanes))
ZeroBuffer(H, L) == [i \in 1..H |-> [j \in 1..L |-> 0]]

\* Mutant of EqualSplit: the whole cycle for every lane (the division left out).
EqualSplitWhole(L, C) == [j \in 1..L |-> FromInt(C)]

\* np.full(num_lanes, cycle_length / num_lanes)
EqualSplit(L, C) == [j \in 1..L |-> Norm(C, L)]

NoResult == [op |-> "none", status |-> "ok", again |-> FALSE, latest_counts |-> <<>>,
             predicted_counts |-> <<>>, signal_timings |-> <<>>]

Raised(op, err) == [NoResult EXCEPT !.op = op, !.status = err]

\* What __init__ raises, "ok" if nothing: np.zeros rejects a negative dimension,
\* cycle_length / num_lanes a zero num_lanes; nothing else is looked at.
InitOutcome(L, H, C) ==
    IF L < 0 \/ H < 0 THEN "ValueError"
    ELSE IF L = 0 THEN "ZeroDivisionError"
    ELSE "ok"

Construct(L, H, C) ==
    /\ mgr = "none"
    /\ LET out == InitOutcome(L, H, C) IN
       IF out = "ok"
       THEN /\ mgr' = "ok"
            /\ num_lanes' = L
            /\ history_length' = H
            /\ cycle_length' = C
            /\ vehicle_counts' = ZeroBuffer(H, L)
            /\ signal_timings' = EqualSplit(L, C)
            /\ ret' = [NoResult EXCEPT !.op = "__init__"]
       ELSE /\ mgr' = "failed"
            /\ ret' = Raised("__init__", out)
            /\ UNCHANGED <<num_lanes, history_length, cycle_length,
                           vehicle_counts, signal_timings>>
    /\ UNCHANGED <<submitted, tainted, calls>>

----------------------------------------------------------------------------
(* update_vehicle_counts *)

\* Mutant of ShiftRows: the slices exchanged, vehicle_counts[1:] = vehicle_counts[:-1].
ShiftRowsBackward(buf) ==
    [i \in 1..Len(buf) |-> IF i > 1 THEN buf[i - 1] ELSE buf[i]]

\* self.vehicle_counts[:-1] = self.vehicle_counts[1:]
ShiftRows(buf) ==
    [i \in 1..Len(buf) |-> IF i < Len(buf) THEN buf[i + 1] ELSE buf[i]]

\* numpy's broadcast of new_counts to a row of L entries: a vector of L entries
\* as it is, a vector of one entry repeated, anything else refused.
CanBroadcast(v, L) == Len(v) = L \/ Len(v) = 1

Broadcast(v, L) == [j \in 1..L |-> IF Len(v) = 1 THEN v[1] ELSE v[j]]

\* Mutant of SetLastRow: index 0 for index -1.
SetFirstRow(buf, row) == [buf EXCEPT ![1] = row]

\* self.vehicle_counts[-1] = new_counts
SetLastRow(buf, row) == [buf EXCEPT ![Len(buf)] = row]

\* The call's outcome and the buffer it leaves.  The shift of line 17 is done
\* before line 18 looks at new_counts.
UpdateOutcome(buf, v, L) ==
    IF Len(buf) = 0 THEN "IndexError"
    ELSE IF ~CanBroadcast(v, L) THEN "ValueError"
    ELSE "ok"

UpdatedBuffer(buf, v, L) ==
    IF UpdateOutcome(buf, v, L) = "ok"
    THEN SetLastRow(ShiftRows(buf), Broadcast(v, L))
    ELSE ShiftRows(buf)

\* The history variables: the valid vectors in order, until a wrong-length call.
Record(v) ==
    /\ tainted' = (tainted \/ Len(v) # num_lanes)
    /\ submitted' = IF tainted' THEN <<>> ELSE Append(submitted, v)
    /\ calls' = calls + 1

update_vehicle_counts(v) ==
    /\ mgr = "ok"
    /\ calls < MaxSteps
    /\ vehicle_counts' = UpdatedBuffer(vehicle_counts, v, num_lanes)
    /\ ret' = Raised("update_vehicle_counts", UpdateOutcome(vehicle_counts, v, num_lanes))
    /\ Record(v)
    /\ UNCHANGED <<mgr, num_lanes, history_length, cycle_length, signal_timings>>

----------------------------------------------------------------------------
(* predict_congestion *)

\* X = np.arange(self.history_length)
TimeIndex(H) == [t \in 1..H |-> t - 1]

\* y = self.vehicle_counts[:, lane]
Column(buf, lane) == [t \in 1..Len(buf) |-> buf[t][lane]]

\* np.linalg.lstsq(X_design, y, rcond=None)[0] for the design matrix whose rows are
\* (t, 1), t = 0..H-1: the minimum-norm minimiser <<slope, intercept>> of
\* ||X_design . beta - y||.  With two or more rows the columns are independent and
\* the minimiser is the solution of (X^T X) beta = X^T y; with one row (0, 1) the
\* minimum-norm solution is (0, y[0]); with no rows numpy returns zeros.
Lstsq(H, y) ==
    LET X   == TimeIndex(H)
        St  == ISum(X)
        Stt == ISum([t \in 1..H |-> X[t] * X[t]])
        Sy  == ISum(y)
        Sty == ISum([t \in 1..H |-> X[t] * y[t]])
        det == H * Stt - St * St
    IN  IF H = 0 THEN <<FromInt(0), FromInt(0)>>
        ELSE IF det = 0 THEN <<FromInt(0), FromInt(y[1])>>
        ELSE <<Norm(H * Sty - St * Sy, det), Norm(Stt * Sy - St * Sty, det)>>

\* Mutant of XNext: the fitted line evaluated at the last time index of the window.
XNextLast(H) == <<H - 1, 1>>

\* x_next = np.array([self.history_length, 1])
XNext(H) == <<H, 1>>

\* beta.dot(x_next)
Dot(beta, x) == RAdd(RMul(beta[1], FromInt(x[1])), RMul(beta[2], FromInt(x[2])))

\* Mutant of Clamp: the clamp left out.
ClampMissing(pred) == pred

\* max(pred, 0)
Clamp(pred) == RMax(pred, FromInt(0))

\* The vector predict_congestion returns for a buffer of H rows and L lanes.
PredictedCounts(buf, H, L) ==
    [lane \in 1..L |-> Clamp(Dot(Lstsq(H, Column(buf, lane)), XNext(H)))]

\* Mutant of predict_congestion: the fit consumes the oldest row of the buffer.
predict_congestion_inplace ==
    /\ mgr = "ok"
    /\ ret' = [NoResult EXCEPT
                 !.op = "predict_congestion",
                 !.again = (ret.op = "predict_congestion"),
                 !.predicted_counts =
                     PredictedCounts(vehicle_counts, history_length, num_lanes)]
    /\ vehicle_counts' = ShiftRows(vehicle_counts)
    /\ UNCHANGED <<mgr, num_lanes, history_length, cycle_length,
                   signal_timings, submitted, tainted, calls>>

\* predict_congestion assigns to no attribute of self.
predict_congestion ==
    /\ mgr = "ok"
    /\ ret' = [NoResult EXCEPT
                 !.op = "predict_congestion",
                 !.again = (ret.op = "predict_congestion"),
                 !.predicted_counts =
                     PredictedCounts(vehicle_counts, history_length, num_lanes)]
    /\ UNCHANGED <<mgr, num_lanes, history_length, cycle_length, vehicle_counts,
                   signal_timings, submitted, tainted, calls>>

----------------------------------------------------------------------------
(* optimize_signal_timings *)

\* Mutant of ProportionalSplit: the counts divided by the number of lanes.
ProportionalSplitByLanes(predicted, C) ==
    [j \in 1..Len(predicted) |->
        RMul(RDiv(predicted[j], FromInt(Len(predicted))), FromInt(C))]

\* (predicted_counts / total) * self.cycle_length
ProportionalSplit(predicted, C) ==
    LET total == RSum(predicted)
    IN  [j \in 1..Len(predicted) |-> RMul(RDiv(predicted[j], total), FromInt(C))]

\* Mutant of OptimizedTimings: the test for a zero total left out.
OptimizedTimingsUnguarded(predicted, L, C) == ProportionalSplit(predicted, C)

\* The value optimize_signal_timings stores in self.signal_timings.
OptimizedTimings(predicted, L, C) ==
    IF RSum(predicted) = FromInt(0)
    THEN EqualSplit(L, C)
    ELSE ProportionalSplit(predicted, C)

----------------------------------------------------------------------------
(* simulate_step *)

\* update_vehicle_counts, predict_congestion, optimize_signal_timings in that
\* order; an exception of the update ends the call before the other two.
simulate_step(v) ==
    /\ mgr = "ok"
    /\ calls < MaxSteps
    /\ vehicle_counts' = UpdatedBuffer(vehicle_counts, v, num_lanes)
    /\ LET out       == UpdateOutcome(vehicle_counts, v, num_lanes)
           predicted == PredictedCounts(vehicle_counts', history_length, num_lanes)
       IN  IF out = "ok"
           THEN /\ signal_timings' = OptimizedTimings(predicted, num_lanes, cycle_length)
                /\ ret' = [NoResult EXCEPT
                             !.op = "simulate_step",
                             !.latest_counts = v,
                             !.predicted_counts = predicted,
                             !.signal_timings = signal_timings']
           ELSE /\ signal_timings' = signal_timings
                /\ ret' = Raised("simulate_step", out)
    /\ Record(v)
    /\ UNCHANGED <<mgr, num_lanes, history_length, cycle_length>>

----------------------------------------------------------------------------

Init ==
    /\ mgr = "none"
    /\ num_lanes = 0
    /\ history_length = 0
    /\ cycle_length = 0
    /\ vehicle_counts = <<>>
    /\ signal_timings = <<>>
    /\ ret = NoResult
    /\ submitted = <<>>
    /\ tainted = FALSE
    /\ calls = 0

Next ==
    \/ \E c \in Configs : Construct(c[1], c[2], c[3])
    \/ \E v \in InputVectors : update_vehicle_counts(v)
    \/ predict_congestion
    \/ \E v \in InputVectors : simulate_step(v)

Spec == Init /\ [][Next]_vars

----------------------------------------------------------------------------
(* Properties *)

Zero == FromInt(0)

\* simulate_step has just returned its result (it raised nothing).
StepReturned == mgr = "ok" /\ ret.op = "simulate_step" /\ ret.status = "ok"

\* The configuration section 6 of the specification allows.
ValidConfig == num_lanes > 0 /\ history_length > 0 /\ cycle_length > 0

Lanes == 1..num_lanes

AllZero(p) == \A j \in 1..Len(p) : p[j] = Zero

\* The forecast of a lane before the clamp, as predict_congestion computes it.
RawForecast(lane) ==
    Dot(Lstsq(history_length, Column(vehicle_counts, lane)), XNext(history_length))

\* C1: after every simulate_step of a manager with a positive configuration, given
\* a vector of num_lanes entries (negative and all-zero ones included), the
\* returned signal_timings sum to cycle_length.
C1_CycleConservation ==
    (StepReturned /\ ValidConfig /\ Len(ret.latest_counts) = num_lanes)
        => RSum(ret.signal_timings) = FromInt(cycle_length)

\* C1 witness: a step given a negative entry, after an earlier negative entry in
\* the other lane, whose timings are a proportional split (two lanes, different
\* timings).
C1_Witness ==
    /\ StepReturned /\ ValidConfig /\ num_lanes = 2
    /\ Len(ret.latest_counts) = num_lanes
    /\ \E j \in Lanes : ret.latest_counts[j] < 0
    /\ ret.signal_timings[1] # ret.signal_timings[2]
    /\ ~tainted /\ Len(submitted) >= 2
    /\ \E i \in 1..Len(submitted) : \E j \in Lanes :
          submitted[i][j] < 0 /\ ret.latest_counts[j] >= 0

\* C2: after any sequence of calls, every component of the predicted_counts and
\* of the signal_timings simulate_step returns is >= 0 (positive configuration).
C2_NonNegativeOutputs ==
    (StepReturned /\ ValidConfig)
        => \A j \in Lanes : /\ RLe(Zero, ret.predicted_counts[j])
                            /\ RLe(Zero, ret.signal_timings[j])

\* C2 witness: a step with a negative input whose fitted forecast for some lane
\* is negative before the clamp, while another lane's forecast is positive.
C2_Witness ==
    /\ StepReturned /\ ValidConfig /\ ~tainted
    /\ \E j \in Lanes : ret.latest_counts[j] < 0
    /\ \E j \in Lanes : ~RLe(Zero, RawForecast(j))
    /\ \E j \in Lanes : ~RLe(RawForecast(j), Zero)

\* C5: the buffer always holds history_length rows of num_lanes entries; after k
\* valid updates it is max(0, H-k) zero rows followed by the last min(k, H)
\* submitted vectors in submission order (so after H+1 updates row 0 is the 2nd
\* vector submitted and the 1st is in no row).
C5_SlidingWindow ==
    mgr = "ok" =>
        /\ Len(vehicle_counts) = history_length
        /\ \A i \in 1..history_length : Len(vehicle_counts[i]) = num_lanes
        /\ ~tainted =>
             LET k == Len(submitted)
                 H == history_length
             IN  \A i \in 1..H :
                     vehicle_counts[i] =
                         IF i <= H - k THEN [j \in Lanes |-> 0]
                         ELSE submitted[k - H + i]

\* C5 witness: H+1 valid updates, H >= 2, the 1st vector differing from all later
\* ones: row 0 is the 2nd vector and no row is the 1st.
C5_Witness ==
    /\ mgr = "ok" /\ ~tainted /\ history_length >= 2
    /\ Len(submitted) = history_length + 1
    /\ \A i \in 2..Len(submitted) : submitted[i] # submitted[1]
    /\ vehicle_counts[1] = submitted[2]
    /\ \A i \in 1..history_length : vehicle_counts[i] # submitted[1]

\* C6: when the predicted counts do not sum to 0, each lane's timing is
\* (predicted[lane] / total) * cycle_length, so a lane predicted 0 gets exactly 0;
\* predicted [30, 10, 0, 0] with cycle_length 100 gives [75, 25, 0, 0].
C6_ProportionalAllocation ==
    /\ (StepReturned /\ RSum(ret.predicted_counts) # Zero) =>
         /\ signal_timings = ret.signal_timings
         /\ \A j \in Lanes :
              /\ RMul(signal_timings[j], RSum(ret.predicted_counts))
                     = RMul(ret.predicted_counts[j], FromInt(cycle_length))
              /\ ret.predicted_counts[j] = Zero => signal_timings[j] = Zero
    /\ OptimizedTimings(<<FromInt(30), FromInt(10), Zero, Zero>>, 4, 100)
           = <<FromInt(75), FromInt(25), Zero, Zero>>

\* C6 witness: a step where one lane is predicted 0 and the other is not.
C6_Witness ==
    /\ StepReturned /\ ValidConfig /\ num_lanes = 2
    /\ \E j \in Lanes : ret.predicted_counts[j] = Zero /\ signal_timings[j] = Zero
    /\ \E j \in Lanes : signal_timings[j] = FromInt(cycle_length)

\* C7: whenever every lane's prediction is 0, every lane's timing is
\* cycle_length / num_lanes; so is every stored timing of a fresh manager.
C7_AllZeroFallback ==
    /\ (StepReturned /\ AllZero(ret.predicted_counts)) =>
         /\ signal_timings = ret.signal_timings
         /\ \A j \in Lanes :
              RMul(signal_timings[j], FromInt(num_lanes)) = FromInt(cycle_length)
    /\ (mgr = "ok" /\ ret.op = "__init__") =>
         /\ Len(signal_timings) = num_lanes
         /\ \A j \in Lanes :
              RMul(signal_timings[j], FromInt(num_lanes)) = FromInt(cycle_length)

\* C7 witness: a step on a history that is not all zeros whose forecasts are all
\* clamped to 0 (one of them negative before the clamp), two lanes.
C7_Witness ==
    /\ StepReturned /\ ValidConfig /\ num_lanes = 2 /\ ~tainted
    /\ AllZero(ret.predicted_counts)
    /\ \E i \in 1..history_length : \E j \in Lanes : vehicle_counts[i][j] # 0
    /\ \E j \in Lanes : ~RLe(Zero, RawForecast(j))
    /\ signal_timings[1][2] > 1

\* Slopes and intercepts of the lines a fitted line is compared with.
Grid == {-2, -1, 0, 1, 2}

\* Sum of squared residuals of the line slope * t + intercept on the points
\* (t, y[t]), t = 0..H-1.
SquaredError(y, slope, intercept) ==
    RSum([t \in 1..Len(y) |->
            LET r == RSub(FromInt(y[t]), RAdd(RMul(slope, FromInt(t - 1)), intercept))
            IN  RMul(r, r)])

\* The same for a line with integer slope a and intercept b.
GridError(y, a, b) ==
    ISum([t \in 1..Len(y) |-> (y[t] - a * (t - 1) - b) * (y[t] - a * (t - 1) - b)])

\* The ordinary least-squares line through (t, y[t]), t = 0..H-1, by the textbook
\* formulas: slope = Sxy / Sxx about the means, intercept = mean(y) - slope * mean(t).
OlsSlope(y) ==
    LET H    == Len(y)
        tbar == Norm(H - 1, 2)
        ybar == Norm(ISum(y), H)
        Sxy  == RSum([t \in 1..H |-> RMul(RSub(FromInt(t - 1), tbar),
                                          RSub(FromInt(y[t]), ybar))])
        Sxx  == RSum([t \in 1..H |-> RMul(RSub(FromInt(t - 1), tbar),
                                          RSub(FromInt(t - 1), tbar))])
    IN  RDiv(Sxy, Sxx)

OlsIntercept(y) ==
    RSub(Norm(ISum(y), Len(y)), RMul(OlsSlope(y), Norm(Len(y) - 1, 2)))

\* The line is a least-squares line: its residuals are orthogonal to both columns
\* of the design matrix, and no line of the grid has a smaller squared error.
IsLeastSquares(y, slope, intercept) ==
    LET r   == [t \in 1..Len(y) |->
                  RSub(FromInt(y[t]), RAdd(RMul(slope, FromInt(t - 1)), intercept))]
        sse == SquaredError(y, slope, intercept)
    IN  /\ RSum(r) = Zero
        /\ RSum([t \in 1..Len(y) |-> RMul(FromInt(t - 1), r[t])]) = Zero
        /\ \A a \in Grid : \A b \in Grid : RLe(sse, FromInt(GridError(y, a, b)))

\* predict_congestion, or a simulate_step that got as far, has just returned.
PredictionReturned ==
    mgr = "ok" /\ (ret.op = "predict_congestion" \/ StepReturned)

\* C8: for history_length >= 2 the prediction of each lane is
\* max(0, slope * H + intercept) for the least-squares line through the points
\* (t, buffer[t][lane]), t = 0..H-1, of that lane's own column.
C8_LeastSquaresForecast ==
    (PredictionReturned /\ history_length >= 2) =>
        \A lane \in Lanes :
            LET y     == Column(vehicle_counts, lane)
                slope == OlsSlope(y)
                icpt  == OlsIntercept(y)
                raw   == RAdd(RMul(slope, FromInt(history_length)), icpt)
            IN  /\ IsLeastSquares(y, slope, icpt)
                /\ ret.predicted_counts[lane] = (IF RLe(Zero, raw) THEN raw ELSE Zero)

\* C8 witness: predict_congestion on three rows whose points are not on a line in
\* lane 1 (the fit has a non-zero error) with a positive, fractional forecast,
\* and whose other lane's column differs.
C8_Witness ==
    /\ mgr = "ok" /\ ret.op = "predict_congestion"
    /\ history_length = 3 /\ num_lanes = 2 /\ ~tainted
    /\ LET y == Column(vehicle_counts, 1)
       IN  /\ SquaredError(y, OlsSlope(y), OlsIntercept(y)) # Zero
           /\ OlsSlope(y) # Zero
    /\ ret.predicted_counts[1][2] > 1
    /\ Column(vehicle_counts, 1) # Column(vehicle_counts, 2)

\* The last n vectors submitted are all v.
LastAre(n, v) ==
    /\ Len(submitted) >= n
    /\ \A i \in (Len(submitted) - n + 1)..Len(submitted) : submitted[i] = v

NonNegative(v) == \A j \in 1..Len(v) : v[j] >= 0

\* "The proportional split of cycle_length by v": (v / sum(v)) * cycle_length.
SplitInProportion(v, C) == [j \in 1..Len(v) |-> Norm(v[j] * C, ISum(v))]

\* The H-th of H consecutive submissions of a non-negative v has just returned.
SteadyState(v) ==
    /\ StepReturned /\ ValidConfig /\ ~tainted
    /\ Len(v) = num_lanes /\ NonNegative(v)
    /\ LastAre(history_length, v)

\* C9 as stated: after the same non-negative v in H consecutive steps the result
\* has predicted_counts = v and signal_timings = the proportional split by v.
C9_SteadyStateAsStated ==
    \A v \in Vectors(num_lanes) :
        SteadyState(v) =>
            /\ ret.predicted_counts = [j \in Lanes |-> FromInt(v[j])]
            /\ ret.signal_timings = SplitInProportion(v, cycle_length)

\* C9 amended: the same, for v with a positive entry; for the all-zero v the
\* prediction is v and every timing is cycle_length / num_lanes.
C9_SteadyState ==
    \A v \in Vectors(num_lanes) :
        SteadyState(v) =>
            /\ ret.predicted_counts = [j \in Lanes |-> FromInt(v[j])]
            /\ ISum(v) > 0 => ret.signal_timings = SplitInProportion(v, cycle_length)
            /\ ISum(v) = 0 => \A j \in Lanes :
                   RMul(ret.signal_timings[j], FromInt(num_lanes)) = FromInt(cycle_length)

\* C9 witness: H >= 2 steps of the same v = (1, 0) after a different vector.
C9_Witness ==
    /\ history_length >= 2 /\ num_lanes = 2
    /\ SteadyState(<<1, 0>>)
    /\ Len(submitted) > history_length
    /\ submitted[1] # <<1, 0>>
    /\ ret.signal_timings = <<FromInt(cycle_length), Zero>>

\* C10: predict_congestion leaves the buffer, the stored timings and the
\* configuration as they are, and a second call with no call between returns the
\* same vector as the first.
C10_PredictIsPure ==
    [][ret'.op = "predict_congestion" =>
         /\ UNCHANGED <<vehicle_counts, signal_timings, config>>
         /\ ret.op = "predict_congestion" =>
                ret'.predicted_counts = ret.predicted_counts]_vars

\* C10 witness: predict_congestion returned twice in a row on a history that is
\* not all zeros, with a non-zero prediction.
C10_Witness ==
    /\ mgr = "ok" /\ ret.op = "predict_congestion" /\ ret.again
    /\ ~AllZero(ret.predicted_counts)
    /\ calls >= 2

\* C3 as stated: a call of update_vehicle_counts or simulate_step with a vector
\* whose length is not num_lanes raises and leaves the buffer and the stored
\* timings as they were.
C3_RejectionLeavesBuffer ==
    [][\A v \in InputVectors :
         (Len(v) # num_lanes /\ (update_vehicle_counts(v) \/ simulate_step(v))) =>
             /\ ret'.status # "ok"
             /\ UNCHANGED <<vehicle_counts, signal_timings>>]_vars

\* C4 as stated: no manager exists with a non-positive configuration value.
C4_NoInvalidManager == mgr = "ok" => ValidConfig

====
